---------------------------- MODULE Spec2Model ----------------------------
(***************************************************************************)
(* Model of xkcd/downloader.py: the driver loop of main(), the metadata    *)
(* fetchers, output_dir() and download_comic(), together with the local    *)
(* filesystem they write to and the remote source they read from.          *)
(*                                                                         *)
(* Strings are sequences of one-character strings, so that zfill, split,   *)
(* re.sub and int() are computed character by character as Python does.    *)
(***************************************************************************)
EXTENDS Integers, Sequences, FiniteSets, TLC

(***************************************************************************)
(* Bounds of the model.                                                    *)
(***************************************************************************)
\* Number of comics the remote source holds (the latest comic's number).
NumComics == 2
\* How far past the latest number the counter may run before the model stops.
MaxOvershoot == 1
\* Number of consecutive runs of the script over the same filesystem.
MaxRuns == 2
\* Length in bytes of every image the source serves.
ImgLen == 2
\* Longest title drawn for the title clean-up specification.
MaxTitleLen == 2

(***************************************************************************)
(* Python string functions used by the script.                             *)
(***************************************************************************)
\* str.zfill(width): left-pad with "0" up to width, after a leading sign.
RECURSIVE Zeros(_)
Zeros(n) == IF n <= 0 THEN <<>> ELSE <<"0">> \o Zeros(n - 1)

zfill(s, width) ==
    IF Len(s) >= width THEN s
    ELSE IF Len(s) > 0 /\ Head(s) \in {"+", "-"}
         THEN <<Head(s)>> \o Zeros(width - Len(s)) \o Tail(s)
         ELSE Zeros(width - Len(s)) \o s

\* int(s) on a string of decimal digits.
DigitValue(c) ==
    CASE c = "0" -> 0 [] c = "1" -> 1 [] c = "2" -> 2 [] c = "3" -> 3
      [] c = "4" -> 4 [] c = "5" -> 5 [] c = "6" -> 6 [] c = "7" -> 7
      [] c = "8" -> 8 [] c = "9" -> 9

RECURSIVE int(_)
int(s) ==
    IF s = <<>> THEN 0
    ELSE 10 * int(SubSeq(s, 1, Len(s) - 1)) + DigitValue(s[Len(s)])

\* datetime(year=int(..), month=int(..), day=int(..)), as a triple.
datetime(data) == <<int(data.year), int(data.month), int(data.day)>>

\* datetime.__lt__: chronological order.
DateLess(a, b) ==
    \/ a[1] < b[1]
    \/ a[1] = b[1] /\ a[2] < b[2]
    \/ a[1] = b[1] /\ a[2] = b[2] /\ a[3] < b[3]

\* img_url.split(".")[-1]: the text after the last ".", or all of it.
LastDot(s) ==
    LET dots == {i \in 1..Len(s) : s[i] = "."}
    IN  IF dots = {} THEN 0 ELSE CHOOSE i \in dots : \A j \in dots : j <= i

SplitLast(s) == SubSeq(s, LastDot(s) + 1, Len(s))

\* The alternatives of the pattern r"/|\\|\:|\*|\?|\"|<|>|\|", in order.
TitlePattern_noPipe == <<"/", "\\", ":", "*", "?", "\"", "<", ">">>

TitlePattern == <<"/", "\\", ":", "*", "?", "\"", "<", ">", "|">>

PatternMatches(c) == \E k \in 1..Len(TitlePattern) : TitlePattern[k] = c

\* re.sub(pattern, "", s): scan left to right, dropping every match.
RECURSIVE re_sub(_)
re_sub(s) ==
    IF s = <<>> THEN <<>>
    ELSE IF PatternMatches(Head(s)) THEN re_sub(Tail(s))
         ELSE <<Head(s)>> \o re_sub(Tail(s))

(***************************************************************************)
(* The remote source: JSON records served at /{number}/info.0.json, the    *)
(* latest of them also at /info.0.json, and the image bytes behind "img".  *)
(* An empty "img" stands for a record with no image field: the script      *)
(* tests it for truth only, and a missing key and "" are both falsy.       *)
(***************************************************************************)
Y2006 == <<"2", "0", "0", "6">>
Y2007 == <<"2", "0", "0", "7">>

RecTest ==
    [year |-> Y2006, month |-> <<"1">>, day |-> <<"1">>,
     safe_title |-> <<"T", "e", "s", "t">>,
     img |-> <<"h", "t", "t", "p", ":", "/", "/", "x", "/",
               "t", "e", "s", "t", ".", "p", "n", "g">>]

\* Same date and same cleaned title as RecTest, another image.
RecTwin ==
    [year |-> Y2006, month |-> <<"1">>, day |-> <<"1">>,
     safe_title |-> <<"T", "e", "?", "s", "t">>,
     img |-> <<"y", ".", "p", "n", "g">>]

RecNoImg ==
    [year |-> Y2006, month |-> <<"1">>, day |-> <<"2">>,
     safe_title |-> <<"Q">>, img |-> <<>>]

RecSvg ==
    [year |-> Y2006, month |-> <<"1">>, day |-> <<"2">>,
     safe_title |-> <<"S">>, img |-> <<"s", ".", "s", "v", "g">>]

RecLate ==
    [year |-> Y2007, month |-> <<"1", "0">>, day |-> <<"3">>,
     safe_title |-> <<"A", "/", "B">>, img |-> <<"l", ".", "g", "i", "f">>]

Records == {RecTest, RecTwin, RecNoImg, RecSvg, RecLate}

Sources == [1..NumComics -> Records]

\* The body of the image at url: ImgLen bytes, none shared between images.
ImageBytes(url) == [i \in 1..ImgLen |-> <<url, i>>]

\* The largest number the model lets the counter reach.
MaxComicNumber == NumComics + MaxOvershoot

(***************************************************************************)
(* Paths and policies of download_comic and output_dir.                    *)
(***************************************************************************)
current_dir == <<".">>

\* f"{current_dir}/comics/{year}"
OutputDirOf(data) ==
    current_dir \o <<"/", "c", "o", "m", "i", "c", "s", "/">> \o data.year

\* month/day as the filename shows them: comic_data.get(..).zfill(2)
PadField_unpadded(s) == s

PadField(s) == zfill(s, 2)

\* f"({year}-{month}-{day}) {safe_title}.{extension}"
Filename(data, title, ext) ==
    <<"(">> \o data.year \o <<"-">> \o PadField(data.month) \o <<"-">>
        \o PadField(data.day) \o <<")", " ">> \o title \o <<".">> \o ext

\* f"{comic_output_dir}/{filename}"
OutputPathOf(data, title, ext) ==
    OutputDirOf(data) \o <<"/">> \o Filename(data, title, ext)

AllowedExtensions ==
    {<<"p", "n", "g">>, <<"j", "p", "g">>, <<"j", "p", "e", "g">>,
     <<"g", "i", "f">>}

\* "if not comic_data or not comic_data.get('img')" on an optional record.
IsNonComic_ignoreImg(opt) == opt = <<>>

IsNonComic(opt) == opt = <<>> \/ opt[1].img = <<>>

(***************************************************************************)
(* State.                                                                  *)
(***************************************************************************)
VARIABLES
    source,                   \* the remote source: number -> record
    dirs,                     \* year directories that exist under comics/
    files,                    \* output path -> bytes of the file there
    run,                      \* which run of the script this is
    pc,                       \* where main() stands
    exc,                      \* the exception that left main(), or "none"
    comic_date,               \* main: date of the last comic downloaded
    comic_number,             \* main: the counter
    most_recent_comic_date,   \* main: the stopping date
    most_recent_comic_number, \* main: the latest comic's number
    comic_data,               \* main: <<record>>, or <<>> for None
    safe_title,               \* download_comic: the cleaned title
    extension,                \* download_comic: text after the last "."
    output_path,              \* download_comic: where the image goes
    file_content,             \* download_comic: the bytes fetched
    requests,                 \* this run's HTTP requests, in order
    fsOps,                    \* this run's mkdir/open/write calls that succeeded
    opens,                    \* output path -> times opened for writing, all runs
    logged                    \* the last logger call of this run

vars ==
    <<source, dirs, files, run, pc, exc, comic_date, comic_number,
      most_recent_comic_date, most_recent_comic_number, comic_data,
      safe_title, extension, output_path, file_content, requests, fsOps,
      opens, logged>>

remote == <<source>>
disk == <<dirs, files, fsOps, opens>>
latest == <<most_recent_comic_date, most_recent_comic_number>>
locals == <<safe_title, extension, output_path, file_content>>

Unset == <<0, 0, 0>>

\* The values main() and download_comic() hold before they assign anything.
FreshRun ==
    /\ pc = "start"
    /\ exc = "none"
    /\ comic_date = Unset
    /\ comic_number = 0
    /\ most_recent_comic_date = Unset
    /\ most_recent_comic_number = 0
    /\ comic_data = <<>>
    /\ safe_title = <<>>
    /\ extension = <<>>
    /\ output_path = <<>>
    /\ file_content = <<>>
    /\ requests = <<>>
    /\ fsOps = {}
    /\ logged = "none"

Init ==
    /\ source \in Sources
    /\ dirs = {}
    /\ files = <<>>
    /\ opens = <<>>
    /\ run = 1
    /\ FreshRun

Exists(path) == path \in DOMAIN files

\* The file at path after its bytes are set to content.
Put(path, content) ==
    [q \in DOMAIN files \cup {path} |-> IF q = path THEN content ELSE files[q]]

OpenCount(path) == IF path \in DOMAIN opens THEN opens[path] ELSE 0

(***************************************************************************)
(* main(): initialisation and the latest-comic lookup.                     *)
(***************************************************************************)
\* comic_date = datetime(2000, 1, 1); comic_number = 0
Start ==
    /\ pc = "start"
    /\ comic_date' = <<2000, 1, 1>>
    /\ comic_number' = 0
    /\ pc' = "get_most_recent"
    /\ UNCHANGED <<remote, disk, run, exc, latest, comic_data, locals,
                   requests, logged>>

\* Where main() stands once the lookup's "raise e" has run: the exception
\* is handled nowhere, so it leaves main().
MostRecentRaised_goesOn == "loop"

MostRecentRaised == "aborted"

\* session.get(url) raises: nothing catches it.
MostRecentTransportError ==
    /\ pc = "get_most_recent"
    /\ requests' = Append(requests, <<"latest">>)
    /\ exc' = "latest_transport"
    /\ pc' = "aborted"
    /\ UNCHANGED <<remote, disk, run, comic_date, comic_number, latest,
                   comic_data, locals, logged>>

\* response.json() raises: logged, then raised again.
MostRecentParseError ==
    /\ pc = "get_most_recent"
    /\ requests' = Append(requests, <<"latest">>)
    /\ logged' = "error: couldn't get data for most recent comic"
    /\ exc' = "latest_parse"
    /\ pc' = MostRecentRaised
    /\ UNCHANGED <<remote, disk, run, comic_date, comic_number, latest,
                   comic_data, locals>>

\* The lookup answers with the latest record: its date and its number.
MostRecentOk ==
    /\ pc = "get_most_recent"
    /\ requests' = Append(requests, <<"latest">>)
    /\ most_recent_comic_date' = datetime(source[NumComics])
    /\ most_recent_comic_number' = NumComics
    /\ logged' = "info: latest comic"
    /\ pc' = "loop"
    /\ UNCHANGED <<remote, disk, run, exc, comic_date, comic_number,
                   comic_data, locals>>

(***************************************************************************)
(* main(): the driver loop.                                                *)
(***************************************************************************)
\* while comic_date < most_recent_comic_date: comic_number += 1
LoopTest ==
    /\ pc = "loop"
    /\ IF DateLess(comic_date, most_recent_comic_date)
       THEN /\ comic_number < MaxComicNumber
            /\ comic_number' = comic_number + 1
            /\ pc' = "get_comic_data"
       ELSE /\ comic_number' = comic_number
            /\ pc' = "done"
    /\ UNCHANGED <<remote, disk, run, exc, comic_date, latest, comic_data,
                   locals, requests, logged>>

\* get_comic_data: session.get(url) is outside the try, so it raises.
ComicDataTransportError ==
    /\ pc = "get_comic_data"
    /\ requests' = Append(requests, <<"meta", comic_number>>)
    /\ exc' = "meta_transport"
    /\ pc' = "aborted"
    /\ UNCHANGED <<remote, disk, run, comic_date, comic_number, latest,
                   comic_data, locals, logged>>

\* get_comic_data: response.json() raises (a 404 page, a broken body):
\* logged, None returned.
ComicDataParseError ==
    /\ pc = "get_comic_data"
    /\ requests' = Append(requests, <<"meta", comic_number>>)
    /\ logged' = "error: couldn't get data"
    /\ comic_data' = <<>>
    /\ pc' = "check_data"
    /\ UNCHANGED <<remote, disk, run, exc, comic_date, comic_number, latest,
                   locals>>

\* get_comic_data: the record of a number the source holds.
ComicDataOk ==
    /\ pc = "get_comic_data"
    /\ comic_number \in DOMAIN source
    /\ requests' = Append(requests, <<"meta", comic_number>>)
    /\ comic_data' = <<source[comic_number]>>
    /\ pc' = "check_data"
    /\ UNCHANGED <<remote, disk, run, exc, comic_date, comic_number, latest,
                   locals, logged>>

\* if not comic_data or not comic_data.get("img"): warn; continue
CheckData ==
    /\ pc = "check_data"
    /\ IF IsNonComic(comic_data)
       THEN /\ logged' = "warn: skipping non-comic comic"
            /\ pc' = "loop"
       ELSE /\ logged' = logged
            /\ pc' = "download_comic"
    /\ UNCHANGED <<remote, disk, run, exc, comic_date, comic_number, latest,
                   comic_data, locals, requests>>

\* comic_date = datetime(year=.., month=.., day=..) after download_comic.
SetDate ==
    /\ pc = "set_date"
    /\ comic_date' = datetime(comic_data[1])
    /\ pc' = "loop"
    /\ UNCHANGED <<remote, disk, run, exc, comic_number, latest, comic_data,
                   locals, requests, logged>>

(***************************************************************************)
(* download_comic() and output_dir().                                      *)
(***************************************************************************)
\* Lines 67-73: the fields are read and the title is cleaned.
CleanTitle ==
    /\ pc = "download_comic"
    /\ safe_title' = re_sub(comic_data[1].safe_title)
    /\ pc' = "output_dir"
    /\ UNCHANGED <<remote, disk, run, exc, comic_date, comic_number, latest,
                   comic_data, extension, output_path, file_content,
                   requests, logged>>

\* output_dir: the year directory is there, or os.mkdir creates it.
OutputDir ==
    /\ pc = "output_dir"
    /\ LET d == OutputDirOf(comic_data[1])
       IN  IF d \in dirs
           THEN UNCHANGED <<dirs, fsOps>>
           ELSE /\ dirs' = dirs \cup {d}
                /\ fsOps' = fsOps \cup {<<"mkdir", d>>}
    /\ pc' = "make_path"
    /\ UNCHANGED <<remote, files, opens, run, exc, comic_date, comic_number,
                   latest, comic_data, locals, requests, logged>>

\* output_dir: os.mkdir raises (comics/ missing, no permission, ...);
\* nothing catches it.
MkdirError ==
    /\ pc = "output_dir"
    /\ OutputDirOf(comic_data[1]) \notin dirs
    /\ exc' = "mkdir"
    /\ pc' = "aborted"
    /\ UNCHANGED <<remote, disk, run, comic_date, comic_number, latest,
                   comic_data, locals, requests, logged>>

\* Lines 77-84: extension, filename, output path, and the allow-list.
MakePath ==
    /\ pc = "make_path"
    /\ extension' = SplitLast(comic_data[1].img)
    /\ output_path' = OutputPathOf(comic_data[1], safe_title, extension')
    /\ IF extension' \notin AllowedExtensions
       THEN /\ logged' = "warn: unexpected extension type"
            /\ pc' = "set_date"
       ELSE /\ logged' = logged
            /\ pc' = "check_exists"
    /\ UNCHANGED <<remote, disk, run, exc, comic_date, comic_number, latest,
                   comic_data, safe_title, file_content, requests>>

\* if not os.path.exists(output_path)
ShouldDownload_always == TRUE

ShouldDownload == ~Exists(output_path)

CheckExists ==
    /\ pc = "check_exists"
    /\ pc' = IF ShouldDownload THEN "get_img" ELSE "set_date"
    /\ UNCHANGED <<remote, disk, run, exc, comic_date, comic_number, latest,
                   comic_data, locals, requests, logged>>

\* session.get(img_url) or response.content.read() raises: logged, return.
ImgTransportError ==
    /\ pc = "get_img"
    /\ requests' = Append(requests, <<"img", comic_data[1].img>>)
    /\ logged' = "error: couldn't save image"
    /\ pc' = "set_date"
    /\ UNCHANGED <<remote, disk, run, exc, comic_date, comic_number, latest,
                   comic_data, locals>>

\* The image bytes arrive.
ImgOk ==
    /\ pc = "get_img"
    /\ requests' = Append(requests, <<"img", comic_data[1].img>>)
    /\ file_content' = ImageBytes(comic_data[1].img)
    /\ pc' = "open"
    /\ UNCHANGED <<remote, disk, run, exc, comic_date, comic_number, latest,
                   comic_data, safe_title, extension, output_path, logged>>

\* open(output_path, "wb"): the file is created, or truncated, empty.
OpenFile ==
    /\ pc = "open"
    /\ files' = Put(output_path, <<>>)
    /\ opens' = [q \in DOMAIN opens \cup {output_path} |->
                    IF q = output_path THEN OpenCount(q) + 1 ELSE opens[q]]
    /\ fsOps' = fsOps \cup {<<"open", output_path>>}
    /\ pc' = "write"
    /\ UNCHANGED <<remote, dirs, run, exc, comic_date, comic_number, latest,
                   comic_data, locals, requests, logged>>

\* open() raises (name too long, no permission, ...); nothing catches it.
OpenError ==
    /\ pc = "open"
    /\ exc' = "open"
    /\ pc' = "aborted"
    /\ UNCHANGED <<remote, disk, run, comic_date, comic_number, latest,
                   comic_data, locals, requests, logged>>

\* f.write(file_content) and the close at the end of the with block.
WriteFile ==
    /\ pc = "write"
    /\ files' = Put(output_path, file_content)
    /\ fsOps' = fsOps \cup {<<"write", output_path>>}
    /\ pc' = "set_date"
    /\ UNCHANGED <<remote, dirs, opens, run, exc, comic_date, comic_number,
                   latest, comic_data, locals, requests, logged>>

\* The write raises (disk full, ...) with only part of the bytes on disk;
\* nothing catches it.
WriteError ==
    /\ pc = "write"
    /\ \E k \in 0..(Len(file_content) - 1) :
          files' = Put(output_path, SubSeq(file_content, 1, k))
    /\ exc' = "write"
    /\ pc' = "aborted"
    /\ UNCHANGED <<remote, dirs, opens, fsOps, run, comic_date, comic_number,
                   latest, comic_data, locals, requests, logged>>

(***************************************************************************)
(* The process from outside: it is terminated, and the script is run again.*)
(***************************************************************************)
Running == pc \notin {"start", "done", "aborted", "killed"}

\* External termination at any point; during the write, whatever part of
\* the bytes had reached the disk stays there.
Kill ==
    /\ Running
    /\ IF pc = "write"
       THEN \E k \in 0..(Len(file_content) - 1) :
               files' = Put(output_path, SubSeq(file_content, 1, k))
       ELSE files' = files
    /\ pc' = "killed"
    /\ UNCHANGED <<remote, dirs, opens, fsOps, run, exc, comic_date,
                   comic_number, latest, comic_data, locals, requests, logged>>

\* The script is started again: main() starts afresh, the disk is as left.
Rerun ==
    /\ pc \in {"done", "aborted", "killed"}
    /\ run < MaxRuns
    /\ run' = run + 1
    /\ pc' = "start"
    /\ exc' = "none"
    /\ comic_date' = Unset
    /\ comic_number' = 0
    /\ most_recent_comic_date' = Unset
    /\ most_recent_comic_number' = 0
    /\ comic_data' = <<>>
    /\ safe_title' = <<>>
    /\ extension' = <<>>
    /\ output_path' = <<>>
    /\ file_content' = <<>>
    /\ requests' = <<>>
    /\ fsOps' = {}
    /\ logged' = "none"
    /\ UNCHANGED <<remote, dirs, files, opens>>

Next ==
    \/ Start
    \/ MostRecentTransportError
    \/ MostRecentParseError
    \/ MostRecentOk
    \/ LoopTest
    \/ ComicDataTransportError
    \/ ComicDataParseError
    \/ ComicDataOk
    \/ CheckData
    \/ CleanTitle
    \/ OutputDir
    \/ MkdirError
    \/ MakePath
    \/ CheckExists
    \/ ImgTransportError
    \/ ImgOk
    \/ OpenFile
    \/ OpenError
    \/ WriteFile
    \/ WriteError
    \/ Kill
    \/ SetDate
    \/ Rerun

Spec == Init /\ [][Next]_vars

(***************************************************************************)
(* The title clean-up on its own: download_comic is entered with a record  *)
(* whose title is any string over TitleChars up to MaxTitleLen characters, *)
(* or the title "A/B: Test?", and runs up to the output path.              *)
(***************************************************************************)
TitleChars == {"/", "\\", ":", "*", "?", "\"", "<", ">", "|", "A", " "}

RECURSIVE StringsUpTo(_)
StringsUpTo(n) ==
    IF n = 0 THEN {<<>>}
    ELSE StringsUpTo(n - 1) \cup
         {Append(t, c) : t \in StringsUpTo(n - 1), c \in TitleChars}

ExampleTitle == <<"A", "/", "B", ":", " ", "T", "e", "s", "t", "?">>

Titles == StringsUpTo(MaxTitleLen) \cup {ExampleTitle}

InitTitle ==
    \E t \in Titles :
        LET rec == [RecTest EXCEPT !.safe_title = t]
        IN  /\ source = [n \in 1..NumComics |-> rec]
            /\ dirs = {}
            /\ files = <<>>
            /\ opens = <<>>
            /\ run = 1
            /\ pc = "download_comic"
            /\ exc = "none"
            /\ comic_date = <<2000, 1, 1>>
            /\ comic_number = 1
            /\ most_recent_comic_date = datetime(rec)
            /\ most_recent_comic_number = NumComics
            /\ comic_data = <<rec>>
            /\ safe_title = <<>>
            /\ extension = <<>>
            /\ output_path = <<>>
            /\ file_content = <<>>
            /\ requests = <<<<"latest">>, <<"meta", 1>>>>
            /\ fsOps = {}
            /\ logged = "info: latest comic"

NextTitle ==
    \/ CleanTitle
    \/ OutputDir
    \/ MakePath

SpecTitle == InitTitle /\ [][NextTitle]_vars

(***************************************************************************)
(* Properties.  What a record should produce is stated here on its own     *)
(* terms, not through the operators that model the script.                 *)
(***************************************************************************)
UnsafeChars == {"/", "\\", ":", "*", "?", "\"", "<", ">", "|"}

IsSafeChar(c) == c \notin UnsafeChars

\* The title with the nine characters removed, the others kept in order.
Stripped(title) == SelectSeq(title, IsSafeChar)

\* A one-digit field shown with two digits.
TwoDigits(s) == IF Len(s) = 1 THEN <<"0">> \o s ELSE s

\* comics/<year>/(<year>-<MM>-<DD>) <sanitized title>.<ext> of a record.
ExpectedPath(r) ==
    <<".", "/", "c", "o", "m", "i", "c", "s", "/">> \o r.year \o <<"/", "(">>
        \o r.year \o <<"-">> \o TwoDigits(r.month) \o <<"-">>
        \o TwoDigits(r.day) \o <<")", " ">> \o Stripped(r.safe_title)
        \o <<".">> \o SplitLast(r.img)

\* ./comics/2006/(2006-01-01) Test.png
TestPngPath ==
    <<".", "/", "c", "o", "m", "i", "c", "s", "/", "2", "0", "0", "6", "/",
      "(", "2", "0", "0", "6", "-", "0", "1", "-", "0", "1", ")", " ",
      "T", "e", "s", "t", ".", "p", "n", "g">>

HasImage(r) == r.img # <<>>

Downloadable(r) == HasImage(r) /\ SplitLast(r.img) \in AllowedExtensions

ImgRequested(url) ==
    \E i \in 1..Len(requests) : requests[i] = <<"img", url>>

MetaRequests == SelectSeq(requests, LAMBDA q : q[1] = "meta")

\* C1: once the latest-comic lookup has returned number L, the metadata
\* requests of the run are for 1, 2, 3, ... in ascending order, one per
\* number, and none is for a number greater than L.
C1_RequestsStayWithinLatest ==
    /\ \A i \in 1..Len(MetaRequests) : MetaRequests[i][2] = i
    /\ Len(MetaRequests) > 0 => Len(MetaRequests) <= most_recent_comic_number
    /\ pc = "get_comic_data" => comic_number <= most_recent_comic_number

\* C2: when download_comic finds a file at the record's output path, it
\* returns without an image request and leaves every file as it was; and
\* a path is opened for writing only when no file is there.
C2_ExistingFileUntouched ==
    [][/\ (pc = "check_exists" /\ output_path \in DOMAIN files)
            => /\ pc' \in {"set_date", "killed"}
               /\ requests' = requests
               /\ files' = files
               /\ opens' = opens
       /\ opens' # opens => output_path \notin DOMAIN files]_vars

\* C2 happens: download_comic has returned for a downloadable record whose
\* file was there, with no image request and no open in this run.
C2_Witness ==
    /\ pc = "set_date"
    /\ Downloadable(comic_data[1])
    /\ output_path \in DOMAIN files
    /\ files[output_path] = ImageBytes(comic_data[1].img)
    /\ ~ImgRequested(comic_data[1].img)
    /\ <<"open", output_path>> \notin fsOps

\* C3: whenever no write is in progress, a file at a comic's output path
\* holds the complete bytes of that comic's image.
C3_FilePresenceMeansComplete ==
    pc # "write" =>
        \A n \in DOMAIN source :
            (Downloadable(source[n]) /\ ExpectedPath(source[n]) \in DOMAIN files)
                => files[ExpectedPath(source[n])] = ImageBytes(source[n].img)

\* C4: no failure of the image-download step (creating the year directory,
\* opening or writing the output file) ends the run.
C4_DownloadFailureIsSkip == exc \notin {"mkdir", "open", "write"}

\* C5: no failure of a per-comic metadata fetch ends the run.
C5_MetadataFailureIsSkip == exc # "meta_transport"

\* C6: a run whose latest-comic lookup failed is aborted there: its only
\* request is the lookup, the counter is still 0, and it has made no
\* directory and opened or written no file.
C6_LatestFailureAborts ==
    exc \in {"latest_transport", "latest_parse"}
        => /\ pc = "aborted"
           /\ requests = <<<<"latest">>>>
           /\ comic_number = 0
           /\ fsOps = {}

\* C6 happens: the lookup's response did not parse and the run is over.
C6_Witness == exc = "latest_parse" /\ pc = "aborted" /\ logged # "none"

\* C7: an iteration whose metadata is absent or has no image goes back to
\* the loop with directories, files, date cursor and counter as they
\* were; and directories, files and the date cursor change only while a
\* record with an image is being processed.
C7_NonComicIsSkipped ==
    [][/\ (pc = "check_data" /\ (comic_data = <<>> \/ ~HasImage(comic_data[1])))
            => /\ pc' \in {"loop", "killed"}
               /\ dirs' = dirs /\ files' = files /\ fsOps' = fsOps
               /\ comic_date' = comic_date
               /\ comic_number' = comic_number
       /\ (Running /\ (dirs' # dirs \/ files' # files \/ comic_date' # comic_date))
            => comic_data # <<>> /\ HasImage(comic_data[1])]_vars

\* C7 happens: record 1 had no image; the loop is back at its test with
\* the counter at 1, the date cursor at its start and nothing on disk.
C7_Witness ==
    /\ pc = "loop"
    /\ comic_number = 1
    /\ comic_data # <<>> /\ ~HasImage(comic_data[1])
    /\ logged = "warn: skipping non-comic comic"
    /\ comic_date = <<2000, 1, 1>>
    /\ dirs = {} /\ files = <<>>

C9_DisallowedExtensionIsSkipped ==
    (/\ comic_data # <<>>
     /\ HasImage(comic_data[1])
     /\ ~Downloadable(comic_data[1]))
        => /\ ~ImgRequested(comic_data[1].img)
           /\ ExpectedPath(comic_data[1]) \notin DOMAIN files
           /\ exc \notin {"mkdir", "open", "write"}
           /\ pc = "set_date" => logged = "warn: unexpected extension type"

\* C10: the cleaned title is the title with every / \ : * ? " < > |
\* removed and everything else kept in order, it holds none of the nine,
\* "A/B: Test?" becomes "AB Test", and that is the title in the filename.
C10_TitleSanitized ==
    /\ pc # "download_comic" =>
          /\ safe_title = Stripped(comic_data[1].safe_title)
          /\ \A i \in 1..Len(safe_title) : safe_title[i] \notin UnsafeChars
          /\ comic_data[1].safe_title = ExampleTitle
                => safe_title = <<"A", "B", " ", "T", "e", "s", "t">>
    /\ output_path # <<>> => output_path = ExpectedPath(comic_data[1])

\* C10 happens: a title holding only unsafe characters has been cleaned
\* to the empty title and put in the output path.
C10_Witness ==
    /\ output_path # <<>>
    /\ comic_data[1].safe_title = <<"|", "\\">>
    /\ safe_title = <<>>

=============================================================================
